---- MODULE Spec2Model ----
(***************************************************************************)
(* The two source adapters of the repository, HiAnimeScraper               *)
(* (src/mov_cli_hianime/scraper.py) and AnimePaheScraper                    *)
(* (src/myanimeplugin/animepahe/scraper.py), as one state machine.         *)
(*                                                                         *)
(* One public call is made per behaviour.  search and scrape_episodes are  *)
(* one step each; scrape is two steps, cut at its second blocking request. *)
(* Strings that the code concatenates or parses are sequences of tokens;   *)
(* a Python exception leaving the call is recorded in `raised`.            *)
(***************************************************************************)
EXTENDS Integers, Sequences, FiniteSets, TLC

VARIABLES
    pc,               \* "idle", "located" (scrape, between its two requests), "done"
    adapter,          \* which scraper class the call is made on
    op,               \* "search", "scrape_episodes", "scrape"
    query,            \* search: the query, a token sequence
    limit,            \* search: [given, n]
    metadata,         \* scrape / scrape_episodes: the Metadata argument
    episode,          \* scrape: the EpisodeSelector argument, [present, episode]
    response,         \* the decoded body of the first request of the call
    target_episode,   \* scrape: the listing element selected
    second,           \* scrape: the answer to the second request
    requests,         \* the requests issued so far, in order
    entries,          \* search: the Metadata objects yielded
    episode_map,      \* scrape_episodes: the mapping returned, a set of [key, value]
    page,             \* AnimePahe scrape: the playback page fetched
    descriptor,       \* scrape: the Multi / Single returned
    raised            \* the exception that left the call, or NoExc

vars == <<pc, adapter, op, query, limit, metadata, episode, response,
          target_episode, second, page, requests, entries, episode_map, descriptor,
          raised>>

-----------------------------------------------------------------------------
(* Bounds *)

MaxLen == 2         \* longest list in an upstream body
MaxEpisode == 2     \* largest episode number / episode count upstream

-----------------------------------------------------------------------------
(* Values *)

Min(a, b) == IF a < b THEN a ELSE b
Max(a, b) == IF a > b THEN a ELSE b

SeqsUpTo(S, n) == UNION {[1..k -> S] : k \in 0..n}

\* Python's None where a string is expected
None == "<None>"

NoExc == [type |-> "none", msg |-> <<>>]
Exc(t, m) == [type |-> t, msg |-> m]

Digits == <<"0", "1", "2", "3", "4", "5", "6", "7", "8", "9">>

\* str(n) for n >= 0, one token per decimal digit
RECURSIVE Str(_)
Str(n) == IF n < 10 THEN <<Digits[n + 1]>> ELSE Str(n \div 10) \o <<Digits[(n % 10) + 1]>>

IsDigit(t) == \E i \in 1..10 : Digits[i] = t
DigitValue(t) == (CHOOSE i \in 1..10 : Digits[i] = t) - 1

\* int(s) for a non-empty sequence of digit tokens
RECURSIVE IntOf(_)
IntOf(s) == IF Len(s) = 1 THEN DigitValue(s[1])
            ELSE 10 * IntOf(SubSeq(s, 1, Len(s) - 1)) + DigitValue(s[Len(s)])

\* seq[:n] of Python, n possibly negative
PySliceTo(s, n) == IF n >= 0 THEN SubSeq(s, 1, Min(n, Len(s)))
                   ELSE SubSeq(s, 1, Max(0, Len(s) + n))

\* urllib.parse.quote_plus on the tokens used here: a space becomes "+"
quote_plus(q) == [i \in 1..Len(q) |-> IF q[i] = " " THEN "+" ELSE q[i]]

NoMetadata == [id |-> None, title |-> None, type |-> None]
NoSelector == [present |-> FALSE, episode |-> 0]
NoLimit == [given |-> FALSE, n |-> 0]
NoElement == [keys |-> {}, number |-> 0, id |-> <<>>, label |-> <<>>]
NoBody == [transport |-> "none", shape |-> "none", keys |-> {}, items |-> <<>>, tracks |-> <<>>]
NoSubtitles == [t |-> "None", pairs |-> {}]
NoDescriptor == [type |-> "none", url |-> None, title |-> <<>>, referrer |-> None,
                 episode |-> NoSelector, subtitles |-> NoSubtitles]

Request(endpoint, key) == [endpoint |-> endpoint, key |-> key]

\* An upstream answer: the transport outcome and, when it delivered, the body.
\* shape: "unparsable" (json.loads raises), "null", "empty_dict", "no_data" (a
\* non-empty object without "data"), "data_null" ("data" is null), "data".
\* keys: the keys of body["data"] when that is an object.
Body(shape, keys, items, tracks) ==
    [transport |-> "ok", shape |-> shape, keys |-> keys, items |-> items, tracks |-> tracks]
TransportFailure ==
    [transport |-> "fail", shape |-> "none", keys |-> {}, items |-> <<>>, tracks |-> <<>>]
DegenerateShapes == {"unparsable", "null", "empty_dict", "no_data", "data_null"}
DegenerateBodies == {Body(s, {}, <<>>, <<>>) : s \in DegenerateShapes}

-----------------------------------------------------------------------------
(* HiAnimeScraper: _request and search *)

\* _request: any exception of the GET or of json.loads is caught and
\* {"data": {}} is returned in its place
HiRequest(resp) ==
    IF resp.transport = "fail" \/ resp.shape = "unparsable"
    THEN Body("data", {}, <<>>, <<>>)
    ELSE resp

\* `not response`
HiFalsy(body) == body.shape \in {"null", "empty_dict"}
\* `"data" not in response`
HiNoData(body) == body.shape = "no_data"
\* `key not in response["data"]` raises TypeError when data is null
HiDataUnreadable(body) == body.shape = "data_null"

\* the entries of the search body: id, name, episodes.sub, any of them missing
HiAnimes ==
    {[keys |-> {"id", "name", "episodes", "sub"}, id |-> i, name |-> i, count |-> c] :
        i \in {"naruto", "bleach"}, c \in 0..MaxEpisode}
    \cup {[keys |-> {"id", "name", "episodes", "sub"} \ {k}, id |-> "naruto",
           name |-> "naruto", count |-> MaxEpisode] : k \in {"id", "name", "episodes", "sub"}}

HiSearchBodies ==
    {TransportFailure} \cup DegenerateBodies
    \cup {Body("data", {}, <<>>, <<>>)}
    \cup {Body("data", {"animes"}, a, <<>>) : a \in SeqsUpTo(HiAnimes, MaxLen)}

\* a search that classifies an entry with one episode as a series
HiKindThresholdFromOne(count) == count >= 1

\* the type expression of search
HiKindThreshold(count) == count > 1

\* Metadata(id=anime["id"], title=anime["name"], type=...)
HiMetadataOf(anime) ==
    [id |-> anime.id, title |-> anime.name,
     type |-> IF HiKindThreshold(anime.count) THEN "MULTI" ELSE "SINGLE"]

HiAnimeReadable(anime) == {"id", "name", "episodes", "sub"} \subseteq anime.keys

\* the for loop of the search generator, fully iterated: the entries yielded
\* before the first unreadable element, and the KeyError that element raises
HiYielded(animes) ==
    LET k == CHOOSE n \in 0..Len(animes) :
                 /\ \A i \in 1..n : HiAnimeReadable(animes[i])
                 /\ n = Len(animes) \/ ~HiAnimeReadable(animes[n + 1])
    IN  [entries |-> [i \in 1..k |-> HiMetadataOf(animes[i])],
         raised |-> IF k = Len(animes) THEN NoExc ELSE Exc("KeyError", <<>>)]

HiLimitSlice(animes, lim) == IF lim.given THEN PySliceTo(animes, lim.n) ELSE animes

\* search, fully iterated: [requests, entries, raised]
HiSearch(q, lim, resp) ==
    IF q = <<>> THEN [requests |-> <<>>, entries |-> <<>>, raised |-> NoExc]
    ELSE LET r == HiRequest(resp)
             reqs == <<Request("search", quote_plus(q))>>
         IN  IF HiFalsy(r) \/ HiNoData(r)
             THEN [requests |-> reqs, entries |-> <<>>, raised |-> NoExc]
             ELSE IF HiDataUnreadable(r)
             THEN [requests |-> reqs, entries |-> <<>>, raised |-> Exc("TypeError", <<>>)]
             ELSE IF "animes" \notin r.keys
             THEN [requests |-> reqs, entries |-> <<>>, raised |-> NoExc]
             ELSE LET y == HiYielded(HiLimitSlice(r.items, lim))
                  IN  [requests |-> reqs, entries |-> y.entries, raised |-> y.raised]

Queries == {<<>>, <<"one", " ", "piece">>}
Limits == {NoLimit} \cup {[given |-> TRUE, n |-> k] : k \in (0 - 1)..MaxLen}

-----------------------------------------------------------------------------
(* AnimePaheScraper: _request and search *)

\* _request: the GET and json.loads are not guarded; their exceptions leave
\* the caller
PaheRequestRaises(resp) ==
    IF resp.transport = "fail" THEN Exc("TransportError", <<>>)
    ELSE IF resp.shape = "unparsable" THEN Exc("JSONDecodeError", <<>>)
    ELSE NoExc

\* response.get("data", []): [raised, isNone, items]
PaheData(body) ==
    IF body.shape = "null"
    THEN [raised |-> Exc("AttributeError", <<>>), isNone |-> FALSE, items |-> <<>>]
    ELSE IF body.shape = "data_null"
    THEN [raised |-> NoExc, isNone |-> TRUE, items |-> <<>>]
    ELSE IF body.shape = "data"
    THEN [raised |-> NoExc, isNone |-> FALSE, items |-> body.items]
    ELSE [raised |-> NoExc, isNone |-> FALSE, items |-> <<>>]

PaheAnimes ==
    {[keys |-> {"session", "title", "episodes"}, id |-> i, name |-> i, count |-> c] :
        i \in {"naruto", "bleach"}, c \in 0..MaxEpisode}
    \cup {[keys |-> {"session", "title", "episodes"} \ {k}, id |-> "naruto",
           name |-> "naruto", count |-> MaxEpisode] : k \in {"session", "title", "episodes"}}

PaheSearchBodies ==
    {TransportFailure} \cup DegenerateBodies
    \cup {Body("data", {}, a, <<>>) : a \in SeqsUpTo(PaheAnimes, MaxLen)}

PaheKindThreshold(count) == count > 1

\* Metadata(id=anime["session"], title=anime["title"], type=...)
PaheMetadataOf(anime) ==
    [id |-> anime.id, title |-> anime.name,
     type |-> IF PaheKindThreshold(anime.count) THEN "MULTI" ELSE "SINGLE"]

PaheAnimeReadable(anime) == {"session", "title", "episodes"} \subseteq anime.keys

\* the for loop of the search generator, fully iterated
PaheYielded(animes) ==
    LET k == CHOOSE n \in 0..Len(animes) :
                 /\ \A i \in 1..n : PaheAnimeReadable(animes[i])
                 /\ n = Len(animes) \/ ~PaheAnimeReadable(animes[n + 1])
    IN  [entries |-> [i \in 1..k |-> PaheMetadataOf(animes[i])],
         raised |-> IF k = Len(animes) THEN NoExc ELSE Exc("KeyError", <<>>)]

PaheLimitSlice(animes, lim) == IF lim.given THEN PySliceTo(animes, lim.n) ELSE animes

\* search, fully iterated: [requests, entries, raised].  No test of the query.
PaheSearch(q, lim, resp) ==
    LET reqs == <<Request("search", quote_plus(q))>>
        failed == PaheRequestRaises(resp)
        data == PaheData(resp)
    IN  IF failed # NoExc THEN [requests |-> reqs, entries |-> <<>>, raised |-> failed]
        ELSE IF data.raised # NoExc
        THEN [requests |-> reqs, entries |-> <<>>, raised |-> data.raised]
        ELSE IF data.isNone
        THEN [requests |-> reqs, entries |-> <<>>, raised |-> Exc("TypeError", <<>>)]
        ELSE LET y == PaheYielded(PaheLimitSlice(data.items, lim))
             IN  [requests |-> reqs, entries |-> y.entries, raised |-> y.raised]

-----------------------------------------------------------------------------
(* scrape_episodes *)

Metadatas == {[id |-> "naruto", title |-> "naruto", type |-> t] : t \in {"MULTI", "SINGLE"}}

KeyNone == [none |-> TRUE, n |-> 0]
Key(n) == [none |-> FALSE, n |-> n]
\* {None: 1}
SentinelMap == {[key |-> KeyNone, value |-> 1]}

\* the elements of HiAnime's episode listing: number, episodeId, either
\* missing; number 1 is listed under two episode ids
HiEpisodeId(n) == <<"ep-">> \o Str(n)
HiEpisodes ==
    {[keys |-> {"number", "episodeId"}, number |-> n, id |-> HiEpisodeId(n), label |-> <<>>] :
        n \in 1..MaxEpisode}
    \cup {[keys |-> {"number", "episodeId"}, number |-> 1, id |-> <<"ep-dup">>, label |-> <<>>],
          [keys |-> {"number"}, number |-> 1, id |-> <<>>, label |-> <<>>],
          [keys |-> {"episodeId"}, number |-> 0, id |-> HiEpisodeId(1), label |-> <<>>],
          [keys |-> {}, number |-> 0, id |-> <<>>, label |-> <<>>]}

HiListingBodies ==
    {TransportFailure} \cup DegenerateBodies
    \cup {Body("data", {}, <<>>, <<>>)}
    \cup {Body("data", {"episodes"}, e, <<>>) : e \in SeqsUpTo(HiEpisodes, MaxLen)}

\* the group every episode number is mapped to
HiGroup == 1

\* HiAnimeScraper.scrape_episodes: [map, raised]
HiScrapeEpisodes(resp) ==
    LET r == HiRequest(resp)
    IN  IF HiFalsy(r) \/ HiNoData(r) THEN [map |-> SentinelMap, raised |-> NoExc]
        ELSE IF HiDataUnreadable(r) THEN [map |-> {}, raised |-> Exc("TypeError", <<>>)]
        ELSE IF "episodes" \notin r.keys THEN [map |-> SentinelMap, raised |-> NoExc]
        ELSE IF \E i \in 1..Len(r.items) : "number" \notin r.items[i].keys
        THEN [map |-> {}, raised |-> Exc("KeyError", <<>>)]
        ELSE LET m == {[key |-> Key(r.items[i].number), value |-> HiGroup] :
                          i \in 1..Len(r.items)}
             IN  [map |-> IF m = {} THEN SentinelMap ELSE m, raised |-> NoExc]

\* re.search(r"Episode (\d+)", s) on a token sequence: the leftmost "Episode "
\* token followed by a digit, and the longest run of digits after it
EpisodeMatchAt(s, i) == s[i] = "Episode " /\ i < Len(s) /\ IsDigit(s[i + 1])
EpisodeMatches(s) == \E i \in 1..Len(s) : EpisodeMatchAt(s, i)
EpisodeGroup(s) ==
    LET i == CHOOSE k \in 1..Len(s) :
                 EpisodeMatchAt(s, k) /\ \A j \in 1..(k - 1) : ~EpisodeMatchAt(s, j)
        e == CHOOSE k \in (i + 1)..Len(s) :
                 /\ \A j \in (i + 1)..k : IsDigit(s[j])
                 /\ k = Len(s) \/ ~IsDigit(s[k + 1])
    IN  SubSeq(s, i + 1, e)

EpisodeLabel(n) == <<"Episode ">> \o Str(n)

\* ep.get("episode", "Episode 1")
PaheLabelOf(ep) == IF "episode" \in ep.keys THEN ep.label ELSE EpisodeLabel(1)
PaheParses(ep) == EpisodeMatches(PaheLabelOf(ep))
\* int(re.search(...).group(1))
PaheNumberOf(ep) == IntOf(EpisodeGroup(PaheLabelOf(ep)))

\* the elements of AnimePahe's release listing: session, episode, either
\* missing; episode 1 is listed under two sessions and two spellings
PaheSession(n) == <<"s-">> \o Str(n)
PaheEpisodes ==
    {[keys |-> {"session", "episode"}, number |-> 0, id |-> PaheSession(n),
      label |-> EpisodeLabel(n)] : n \in 1..MaxEpisode}
    \cup {[keys |-> {"session", "episode"}, number |-> 0, id |-> <<"s-dup">>, label |-> l] :
            l \in {<<"Episode ", "0", "1", ".", "5">>, <<"Special">>}}
    \cup {[keys |-> {"session"}, number |-> 0, id |-> <<"s-bare">>, label |-> <<>>],
          [keys |-> {"episode"}, number |-> 0, id |-> <<>>, label |-> EpisodeLabel(1)],
          [keys |-> {}, number |-> 0, id |-> <<>>, label |-> <<>>]}

PaheListingBodies ==
    {TransportFailure} \cup DegenerateBodies
    \cup {Body("data", {}, e, <<>>) : e \in SeqsUpTo(PaheEpisodes, MaxLen)}

\* the key every assignment of the loop writes
PaheMapKey == 1

\* AnimePaheScraper.scrape_episodes: [map, raised]
PaheScrapeEpisodes(resp) ==
    LET failed == PaheRequestRaises(resp)
        data == PaheData(resp)
        eps == data.items
    IN  IF failed # NoExc THEN [map |-> {}, raised |-> failed]
        ELSE IF data.raised # NoExc THEN [map |-> {}, raised |-> data.raised]
        ELSE IF data.isNone THEN [map |-> {}, raised |-> Exc("TypeError", <<>>)]
        ELSE IF \E i \in 1..Len(eps) : ~PaheParses(eps[i])
        THEN [map |-> {}, raised |-> Exc("AttributeError", <<>>)]
        ELSE IF eps = <<>> THEN [map |-> SentinelMap, raised |-> NoExc]
        ELSE [map |-> {[key |-> Key(PaheMapKey), value |-> PaheNumberOf(eps[Len(eps)])]},
              raised |-> NoExc]

-----------------------------------------------------------------------------
(* HiAnimeScraper.scrape *)

Selectors == {NoSelector} \cup {[present |-> TRUE, episode |-> n] : n \in 0..MaxEpisode}

\* episode.episode if episode and episode.episode else 1
EpisodeNum(sel) == IF sel.present /\ sel.episode # 0 THEN sel.episode ELSE 1

HiReferrer == "https://hianime.to"

Single(url, title, referrer, subtitles) ==
    [type |-> "Single", url |-> url, title |-> title, referrer |-> referrer,
     episode |-> NoSelector, subtitles |-> subtitles]
Multi(url, title, referrer, sel, subtitles) ==
    [type |-> "Multi", url |-> url, title |-> title, referrer |-> referrer,
     episode |-> sel, subtitles |-> subtitles]

\* the placeholder returned when the episode listing is unavailable
HiListingPlaceholder(m, sel) == Single("", <<m.title>>, "", NoSubtitles)
\* the placeholder returned when the scan of a MULTI entry finds nothing
HiNotFoundPlaceholder(m, sel) == Multi("", <<m.title>>, "", sel, NoSubtitles)
\* the placeholder returned when a SINGLE entry has an empty listing
HiEmptyPlaceholder(m, sel) == Single("", <<m.title>>, "", NoSubtitles)
\* a sources placeholder that ignores the kind of the entry
HiSourcesPlaceholderSingle(m, sel) == Single("", <<m.title>>, "", NoSubtitles)

\* the placeholder returned when the sources are unavailable
HiSourcesPlaceholder(m, sel) ==
    IF m.type = "MULTI" THEN Multi("", <<m.title>>, "", sel, NoSubtitles)
    ELSE Single("", <<m.title>>, "", NoSubtitles)

\* the test of the scan
HiEpisodeMatches(ep, n) == ep.number = n

\* the for loop over the listing: the index of the element the scan stops at
\* (0: it ran to the end), and whether it stopped there on a KeyError
HiScan(eps, n) ==
    LET stops(i) == "number" \notin eps[i].keys \/ HiEpisodeMatches(eps[i], n)
        at == IF \E i \in 1..Len(eps) : stops(i)
              THEN CHOOSE i \in 1..Len(eps) : stops(i) /\ \A j \in 1..(i - 1) : ~stops(j)
              ELSE 0
    IN  [at |-> at, keyError |-> at # 0 /\ "number" \notin eps[at].keys]

Returned(d) == [exit |-> "return", descriptor |-> d, raised |-> NoExc, target |-> NoElement]
Raised(e) == [exit |-> "raise", descriptor |-> NoDescriptor, raised |-> e, target |-> NoElement]
Located(t) == [exit |-> "continue", descriptor |-> NoDescriptor, raised |-> NoExc, target |-> t]

\* scrape up to the sources request: [exit, descriptor, raised, target]
HiLocate(m, sel, resp) ==
    LET r == HiRequest(resp)
        eps == r.items
    IN  IF HiFalsy(r) \/ HiNoData(r) THEN Returned(HiListingPlaceholder(m, sel))
        ELSE IF HiDataUnreadable(r) THEN Raised(Exc("TypeError", <<>>))
        ELSE IF "episodes" \notin r.keys THEN Returned(HiListingPlaceholder(m, sel))
        ELSE IF m.type = "MULTI"
        THEN LET scan == HiScan(eps, EpisodeNum(sel))
             IN  IF scan.keyError THEN Raised(Exc("KeyError", <<>>))
                 ELSE IF scan.at = 0 THEN Returned(HiNotFoundPlaceholder(m, sel))
                 ELSE Located(eps[scan.at])
        ELSE IF eps # <<>> THEN Located(eps[1])
        ELSE Returned(HiEmptyPlaceholder(m, sel))

HiSources ==
    {[keys |-> {"url"}, url |-> u] : u \in {"https://x/vid.m3u8", "https://x/alt.m3u8"}}
    \cup {[keys |-> {}, url |-> None]}

HiTracks ==
    {[keys |-> {"kind", "label", "file"}, kind |-> "captions", label |-> "English",
      file |-> f] : f \in {"en1.vtt", "en2.vtt"}}
    \cup {[keys |-> {"kind", "label", "file"}, kind |-> "captions", label |-> "Spanish",
           file |-> "es.vtt"],
          [keys |-> {"kind", "label", "file"}, kind |-> "thumbnails", label |-> "thumbnails",
           file |-> "th.vtt"],
          [keys |-> {"kind"}, kind |-> "thumbnails", label |-> None, file |-> None],
          [keys |-> {"kind", "label"}, kind |-> "captions", label |-> "English", file |-> None],
          [keys |-> {"label", "file"}, kind |-> None, label |-> "English", file |-> "en1.vtt"]}

HiSourcesBodies ==
    {TransportFailure} \cup DegenerateBodies
    \cup {Body("data", {}, <<>>, <<>>), Body("data", {"tracks"}, <<>>, <<>>)}
    \cup {Body("data", {"sources"}, src, <<>>) : src \in SeqsUpTo(HiSources, MaxLen)}
    \cup {Body("data", {"sources", "tracks"}, <<src>>, t) :
            src \in {x \in HiSources : x.url = "https://x/vid.m3u8"},
            t \in SeqsUpTo(HiTracks, MaxLen)}

\* which tracks go into the subtitles
HiIsCaption(track) == track.kind = "captions"

HiTrackRaises(track) ==
    \/ "kind" \notin track.keys
    \/ HiIsCaption(track) /\ ~({"label", "file"} \subseteq track.keys)

\* subtitles[track["label"]] = track["file"] in list order: the last file
\* assigned to a label is the one kept
HiSubtitles(tracks) ==
    LET caps == {i \in 1..Len(tracks) : HiIsCaption(tracks[i])}
        last == {i \in caps : \A j \in caps : tracks[j].label = tracks[i].label => j <= i}
    IN  [t |-> "dict", pairs |-> {<<tracks[i].label, tracks[i].file>> : i \in last}]

\* the title of a resolved Multi
HiMultiTitle(m, target) == <<m.title, " - ">> \o EpisodeLabel(target.number)

\* scrape from the sources request on: [requests, exit, descriptor, raised]
HiResolve(m, sel, target, resp) ==
    IF "episodeId" \notin target.keys
    THEN [requests |-> <<>>] @@ Raised(Exc("KeyError", <<>>))
    ELSE
    LET r == HiRequest(resp)
        reqs == [requests |-> <<Request("sources", target.id)>>]
        tracks == IF "tracks" \in r.keys THEN r.tracks ELSE <<>>
    IN  IF HiFalsy(r) \/ HiNoData(r) THEN reqs @@ Returned(HiSourcesPlaceholder(m, sel))
        ELSE IF HiDataUnreadable(r) THEN reqs @@ Raised(Exc("TypeError", <<>>))
        ELSE IF "sources" \notin r.keys THEN reqs @@ Returned(HiSourcesPlaceholder(m, sel))
        ELSE IF r.items = <<>> THEN reqs @@ Raised(Exc("IndexError", <<>>))
        ELSE IF "url" \notin r.items[1].keys THEN reqs @@ Raised(Exc("KeyError", <<>>))
        ELSE IF \E i \in 1..Len(tracks) : HiTrackRaises(tracks[i])
        THEN reqs @@ Raised(Exc("KeyError", <<>>))
        ELSE IF m.type = "MULTI"
        THEN reqs @@ Returned(Multi(r.items[1].url, HiMultiTitle(m, target), HiReferrer,
                                    sel, HiSubtitles(tracks)))
        ELSE reqs @@ Returned(Single(r.items[1].url, <<m.title>>, HiReferrer, NoSubtitles))

-----------------------------------------------------------------------------
(* AnimePaheScraper.scrape *)

\* `if not target_episode` on a listing element: an object without keys is falsy
PaheElementFalsy(ep) == ep.keys = {}

\* raise ValueError(f"Episode {episode.episode} not found"): the message is
\* formatted from the selector, which raises AttributeError when it is None
PaheNotFound(sel) ==
    IF sel.present THEN Exc("ValueError", <<"Episode ">> \o Str(sel.episode) \o <<" not found">>)
    ELSE Exc("AttributeError", <<>>)

\* the test of the scan
PaheEpisodeMatches(ep, n) == PaheNumberOf(ep) = n

\* the for loop over the listing: the index of the element the scan stops at
\* (0: it ran to the end), and whether it stopped there because the label of
\* the element does not parse
PaheScan(eps, n) ==
    LET stops(i) == ~PaheParses(eps[i]) \/ PaheEpisodeMatches(eps[i], n)
        at == IF \E i \in 1..Len(eps) : stops(i)
              THEN CHOOSE i \in 1..Len(eps) : stops(i) /\ \A j \in 1..(i - 1) : ~stops(j)
              ELSE 0
    IN  [at |-> at, noMatch |-> at # 0 /\ ~PaheParses(eps[at])]

\* scrape up to the playback-page request: [exit, descriptor, raised, target]
PaheLocate(m, sel, resp) ==
    LET failed == PaheRequestRaises(resp)
        data == PaheData(resp)
        eps == data.items
    IN  IF failed # NoExc THEN Raised(failed)
        ELSE IF data.raised # NoExc THEN Raised(data.raised)
        ELSE IF m.type = "MULTI"
        THEN IF data.isNone THEN Raised(Exc("TypeError", <<>>))
             ELSE LET scan == PaheScan(eps, EpisodeNum(sel))
                  IN  IF scan.noMatch THEN Raised(Exc("AttributeError", <<>>))
                      ELSE IF scan.at = 0 \/ PaheElementFalsy(eps[scan.at])
                      THEN Raised(PaheNotFound(sel))
                      ELSE Located(eps[scan.at])
        ELSE IF eps = <<>> \/ PaheElementFalsy(eps[1]) THEN Raised(PaheNotFound(sel))
        ELSE Located(eps[1])

\* the playback page: each of the two containers, when present, with the href
\* of its anchors / the data-src of its buttons, in document order
Container(present, nodes) == [present |-> present, nodes |-> nodes]
NoPage == [transport |-> "none", pickDownload |-> Container(FALSE, <<>>),
           resolutionMenu |-> Container(FALSE, <<>>)]
PageFailure == [transport |-> "fail", pickDownload |-> Container(FALSE, <<>>),
                resolutionMenu |-> Container(FALSE, <<>>)]
Hrefs == {"https://kwik.si/f/a", "https://kwik.si/f/b", None}
PahePages ==
    {PageFailure}
    \cup {[transport |-> "ok", pickDownload |-> d, resolutionMenu |-> e] :
            d \in {Container(FALSE, <<>>)} \cup {Container(TRUE, a) : a \in SeqsUpTo(Hrefs, MaxLen)},
            e \in {Container(FALSE, <<>>)}
                  \cup {Container(TRUE, b) : b \in SeqsUpTo({"https://kwik.si/e/a"}, MaxLen)}}

\* _extract_stream_url
ExtractStreamUrl(kwik_url) == kwik_url

\* target_episode.get("episode", f"Episode {episode.episode}"); the default is
\* formatted whether or not it is used
PaheEpisodeTitle(target, sel) ==
    IF "episode" \in target.keys THEN target.label ELSE EpisodeLabel(sel.episode)

\* what the resolved descriptors are given as referrer
PaheReferrer == None
\* what the resolved Single is given as subtitles
PaheSingleSubtitles == [t |-> "list", pairs |-> {}]

\* scrape from the playback-page request on: [requests, exit, descriptor, raised]
PaheResolve(m, sel, target, pg) ==
    IF "session" \notin target.keys
    THEN [requests |-> <<>>] @@ Raised(Exc("KeyError", <<>>))
    ELSE
    LET reqs == [requests |-> <<Request("play", <<m.id>> \o target.id)>>]
    IN  IF pg.transport = "fail" THEN reqs @@ Raised(Exc("TransportError", <<>>))
        ELSE IF ~pg.pickDownload.present THEN reqs @@ Raised(Exc("AttributeError", <<>>))
        ELSE IF ~pg.resolutionMenu.present THEN reqs @@ Raised(Exc("AttributeError", <<>>))
        ELSE IF pg.pickDownload.nodes = <<>>
        THEN reqs @@ Raised(Exc("ValueError", <<"No download options found">>))
        ELSE IF pg.resolutionMenu.nodes = <<>> THEN reqs @@ Raised(Exc("IndexError", <<>>))
        ELSE IF ~sel.present THEN reqs @@ Raised(Exc("AttributeError", <<>>))
        ELSE LET video_url == ExtractStreamUrl(pg.pickDownload.nodes[1])
             IN  IF m.type = "MULTI"
                 THEN reqs @@ Returned(Multi(video_url,
                                             <<m.title, " - ">> \o PaheEpisodeTitle(target, sel),
                                             PaheReferrer, sel, [t |-> "list", pairs |-> {}]))
                 ELSE reqs @@ Returned(Single(video_url, <<m.title>>, PaheReferrer,
                                              PaheSingleSubtitles))

-----------------------------------------------------------------------------
(* The state machine *)

Init ==
    /\ pc = "idle"
    /\ adapter = None
    /\ op = None
    /\ query = <<>>
    /\ limit = NoLimit
    /\ metadata = NoMetadata
    /\ episode = NoSelector
    /\ response = NoBody
    /\ target_episode = NoElement
    /\ second = NoBody
    /\ page = NoPage
    /\ requests = <<>>
    /\ entries = <<>>
    /\ episode_map = {}
    /\ descriptor = NoDescriptor
    /\ raised = NoExc

HiAnimeSearch ==
    /\ pc = "idle"
    /\ \E q \in Queries, lim \in Limits, resp \in HiSearchBodies :
        LET out == HiSearch(q, lim, resp)
        IN  /\ adapter' = "hianime"
            /\ op' = "search"
            /\ query' = q
            /\ limit' = lim
            /\ response' = IF out.requests = <<>> THEN NoBody ELSE resp
            /\ requests' = out.requests
            /\ entries' = out.entries
            /\ raised' = out.raised
            /\ pc' = "done"
    /\ UNCHANGED <<metadata, episode, target_episode, second, page, episode_map, descriptor>>

AnimePaheSearch ==
    /\ pc = "idle"
    /\ \E q \in Queries, lim \in Limits, resp \in PaheSearchBodies :
        LET out == PaheSearch(q, lim, resp)
        IN  /\ adapter' = "animepahe"
            /\ op' = "search"
            /\ query' = q
            /\ limit' = lim
            /\ response' = IF out.requests = <<>> THEN NoBody ELSE resp
            /\ requests' = out.requests
            /\ entries' = out.entries
            /\ raised' = out.raised
            /\ pc' = "done"
    /\ UNCHANGED <<metadata, episode, target_episode, second, page, episode_map, descriptor>>

HiAnimeScrapeEpisodes ==
    /\ pc = "idle"
    /\ \E m \in Metadatas, resp \in HiListingBodies :
        LET out == HiScrapeEpisodes(resp)
        IN  /\ adapter' = "hianime"
            /\ op' = "scrape_episodes"
            /\ metadata' = m
            /\ response' = resp
            /\ requests' = <<Request("episodes", <<m.id>>)>>
            /\ episode_map' = out.map
            /\ raised' = out.raised
            /\ pc' = "done"
    /\ UNCHANGED <<query, limit, episode, target_episode, second, page, entries, descriptor>>

AnimePaheScrapeEpisodes ==
    /\ pc = "idle"
    /\ \E m \in Metadatas, resp \in PaheListingBodies :
        LET out == PaheScrapeEpisodes(resp)
        IN  /\ adapter' = "animepahe"
            /\ op' = "scrape_episodes"
            /\ metadata' = m
            /\ response' = resp
            /\ requests' = <<Request("release", <<m.id>>)>>
            /\ episode_map' = out.map
            /\ raised' = out.raised
            /\ pc' = "done"
    /\ UNCHANGED <<query, limit, episode, target_episode, second, page, entries, descriptor>>

HiAnimeScrapeLocate ==
    /\ pc = "idle"
    /\ \E m \in Metadatas, sel \in Selectors, resp \in HiListingBodies :
        LET out == HiLocate(m, sel, resp)
        IN  /\ adapter' = "hianime"
            /\ op' = "scrape"
            /\ metadata' = m
            /\ episode' = sel
            /\ response' = resp
            /\ requests' = <<Request("episodes", <<m.id>>)>>
            /\ target_episode' = out.target
            /\ descriptor' = out.descriptor
            /\ raised' = out.raised
            /\ pc' = IF out.exit = "continue" THEN "located" ELSE "done"
    /\ UNCHANGED <<query, limit, second, page, entries, episode_map>>

\* The listing held in `response` is not read after the scan (only the target
\* is), and is dropped here.
HiAnimeScrapeResolve ==
    /\ pc = "located"
    /\ adapter = "hianime"
    /\ \E resp \in HiSourcesBodies :
        LET out == HiResolve(metadata, episode, target_episode, resp)
        IN  /\ second' = IF out.requests = <<>> THEN NoBody ELSE resp
            /\ requests' = requests \o out.requests
            /\ descriptor' = out.descriptor
            /\ raised' = out.raised
            /\ pc' = "done"
    /\ response' = NoBody
    /\ UNCHANGED <<adapter, op, query, limit, metadata, episode, target_episode, page,
                   entries, episode_map>>

AnimePaheScrapeLocate ==
    /\ pc = "idle"
    /\ \E m \in Metadatas, sel \in Selectors, resp \in PaheListingBodies :
        LET out == PaheLocate(m, sel, resp)
        IN  /\ adapter' = "animepahe"
            /\ op' = "scrape"
            /\ metadata' = m
            /\ episode' = sel
            /\ response' = resp
            /\ requests' = <<Request("release", <<m.id>>)>>
            /\ target_episode' = out.target
            /\ descriptor' = out.descriptor
            /\ raised' = out.raised
            /\ pc' = IF out.exit = "continue" THEN "located" ELSE "done"
    /\ UNCHANGED <<query, limit, second, page, entries, episode_map>>

\* As in HiAnimeScrapeResolve, the listing is dropped.
AnimePaheScrapeResolve ==
    /\ pc = "located"
    /\ adapter = "animepahe"
    /\ \E pg \in PahePages :
        LET out == PaheResolve(metadata, episode, target_episode, pg)
        IN  /\ page' = IF out.requests = <<>> THEN NoPage ELSE pg
            /\ requests' = requests \o out.requests
            /\ descriptor' = out.descriptor
            /\ raised' = out.raised
            /\ pc' = "done"
    /\ response' = NoBody
    /\ UNCHANGED <<adapter, op, query, limit, metadata, episode, target_episode, second,
                   entries, episode_map>>

Next ==
    \/ HiAnimeSearch
    \/ HiAnimeScrapeLocate
    \/ HiAnimeScrapeResolve
    \/ AnimePaheSearch
    \/ HiAnimeScrapeEpisodes
    \/ AnimePaheScrapeEpisodes
    \/ AnimePaheScrapeLocate
    \/ AnimePaheScrapeResolve

Spec == Init /\ [][Next]_vars

-----------------------------------------------------------------------------
(* What the claims speak about *)

Done == pc = "done"
ScrapeOf(a) == op = "scrape" /\ adapter = a
\* scrape has not moved past its first request: the listing is still held
FirstStep == response # NoBody
ReturnedDescriptor == Done /\ op = "scrape" /\ raised = NoExc /\ descriptor.type # "none"
IsPlaceholder(d) == d.type # "none" /\ d.url = ""
KindOf(m) == IF m.type = "SINGLE" THEN "Single" ELSE "Multi"

\* N of the claims: the selector's episode, 1 when the selector is absent or
\* its episode is zero
ClaimedN == IF episode.present /\ episode.episode > 0 THEN episode.episode ELSE 1

HiListingAvailable(resp) ==
    resp.transport = "ok" /\ resp.shape = "data" /\ "episodes" \in resp.keys
HiListingUnavailable(resp) ==
    \/ resp.transport = "fail"
    \/ resp.shape \in {"unparsable", "null", "empty_dict", "no_data"}
    \/ resp.shape = "data" /\ "episodes" \notin resp.keys
HiSourcesUnavailable(resp) ==
    \/ resp.transport = "fail"
    \/ resp.shape \in {"unparsable", "null", "empty_dict", "no_data"}
    \/ resp.shape = "data" /\ "sources" \notin resp.keys
PaheListingAvailable(resp) == resp.transport = "ok" /\ resp.shape = "data"

ListingAvailable ==
    IF adapter = "hianime" THEN HiListingAvailable(response) ELSE PaheListingAvailable(response)
Listing == response.items
WellFormed(ep) ==
    IF adapter = "hianime" THEN ep.keys = {"number", "episodeId"}
    ELSE ep.keys = {"session", "episode"} /\ EpisodeMatches(ep.label)
ListingWellFormed == \A i \in 1..Len(Listing) : WellFormed(Listing[i])
NumberOf(ep) == IF adapter = "hianime" THEN ep.number ELSE IntOf(EpisodeGroup(ep.label))
Hits == {i \in 1..Len(Listing) : NumberOf(Listing[i]) = ClaimedN}
FirstHit == CHOOSE i \in Hits : \A j \in Hits : i <= j
NoTargetFound ==
    IF metadata.type = "MULTI" THEN Hits = {} ELSE Listing = <<>>

IsNotFoundError(e) ==
    /\ e.type = "ValueError"
    /\ Len(e.msg) >= 2
    /\ e.msg[1] = "Episode "
    /\ e.msg[Len(e.msg)] = " not found"

-----------------------------------------------------------------------------
(* The claims *)

\* C1: target selection in scrape, both adapters.  On a Single entry the
\* target is the first listing element whatever the selector; on a Multi entry
\* it is the first element numbered N; when no element is numbered N the
\* JSON-API adapter returns a placeholder and the HTML adapter raises "not
\* found"; no descriptor is built from an element numbered otherwise.
C1_TargetSelection ==
    (op = "scrape" /\ pc # "idle") =>
        /\ (FirstStep /\ ListingAvailable /\ ListingWellFormed) =>
            /\ (metadata.type = "SINGLE" /\ Listing # <<>>) =>
                    pc = "located" /\ target_episode = Listing[1]
            /\ (metadata.type = "MULTI" /\ Hits # {}) =>
                    pc = "located" /\ target_episode = Listing[FirstHit]
            /\ (metadata.type = "MULTI" /\ Hits = {}) =>
                    /\ pc = "done"
                    /\ adapter = "hianime" => raised = NoExc /\ IsPlaceholder(descriptor)
                    /\ adapter = "animepahe" => IsNotFoundError(raised)
        /\ (/\ ReturnedDescriptor /\ ~IsPlaceholder(descriptor)
            /\ metadata.type = "MULTI" /\ WellFormed(target_episode)) =>
                NumberOf(target_episode) = ClaimedN

\* C2 as claimed: every placeholder the JSON-API adapter's scrape returns is
\* of the kind matching the entry, with url "", the entry's title and, for
\* Multi, the caller's selector.
C2_PlaceholderMatchesKind ==
    (ScrapeOf("hianime") /\ ReturnedDescriptor /\ IsPlaceholder(descriptor)) =>
        /\ descriptor.type = KindOf(metadata)
        /\ descriptor.title = <<metadata.title>>
        /\ descriptor.type = "Multi" => descriptor.episode = episode

\* C2 as amended: at the listing-unavailable exit the JSON-API adapter's
\* scrape returns a Single placeholder whatever the kind of the entry; at the
\* target-not-found and sources-unavailable exits it returns a placeholder of
\* the kind matching the entry; every placeholder has url "", referrer "",
\* the entry's title, no subtitles and, for Multi, the caller's selector.
C2_PlaceholderPolicy ==
    (ScrapeOf("hianime") /\ Done) =>
        /\ (FirstStep /\ HiListingUnavailable(response)) =>
                /\ raised = NoExc
                /\ IsPlaceholder(descriptor)
                /\ descriptor.type = "Single"
        /\ (FirstStep /\ HiListingAvailable(response) /\ ListingWellFormed /\ NoTargetFound) =>
                /\ raised = NoExc
                /\ IsPlaceholder(descriptor)
                /\ descriptor.type = KindOf(metadata)
        /\ (second # NoBody /\ HiSourcesUnavailable(second)) =>
                /\ raised = NoExc
                /\ IsPlaceholder(descriptor)
                /\ descriptor.type = KindOf(metadata)
        /\ (ReturnedDescriptor /\ IsPlaceholder(descriptor)) =>
                /\ descriptor.title = <<metadata.title>>
                /\ descriptor.referrer = ""
                /\ descriptor.subtitles = [t |-> "None", pairs |-> {}]
                /\ descriptor.type = "Multi" => descriptor.episode = episode

\* a Multi entry whose listing is unavailable is answered with a Single
\* placeholder
C2_Witness ==
    /\ ScrapeOf("hianime") /\ Done /\ FirstStep
    /\ metadata.type = "MULTI"
    /\ episode.present /\ episode.episode = MaxEpisode
    /\ HiListingUnavailable(response)
    /\ descriptor.type = "Single" /\ descriptor.url = ""

\* C3: the JSON-API adapter's scrape never throws: whatever answers the
\* sources-lookup request (a transport failure, a body without data or
\* sources, an empty sources list, a source without url, a track without
\* kind, label or file), the call returns a usable descriptor or a placeholder
\* with url "".
C3_ScrapeNeverThrows ==
    (ScrapeOf("hianime") /\ Done /\ second # NoBody /\ second.shape # "data_null") =>
        /\ raised = NoExc
        /\ descriptor.type \in {"Single", "Multi"}

\* C4: in the HTML adapter's scrape a missing target episode surfaces as
\* ValueError "Episode ... not found", for any selector, an absent one
\* included; a playback page without download options (either container
\* missing or empty) surfaces as ValueError "No download options found".
C4_DomainErrors ==
    (ScrapeOf("animepahe") /\ Done) =>
        /\ (FirstStep /\ PaheListingAvailable(response) /\ ListingWellFormed /\ NoTargetFound) =>
                IsNotFoundError(raised)
        /\ (page.transport = "ok" /\ (\/ ~page.pickDownload.present
                                      \/ page.pickDownload.nodes = <<>>
                                      \/ ~page.resolutionMenu.present
                                      \/ page.resolutionMenu.nodes = <<>>)) =>
                raised = [type |-> "ValueError", msg |-> <<"No download options found">>]

\* C5: for either adapter and every outcome of the listing request (transport
\* failure, body without the expected keys, empty listing, populated listing)
\* scrape_episodes does not raise and returns {absent: 1} when no episode is
\* discoverable, otherwise the mapping from each listed episode number to 1.
C5_EpisodeIndex ==
    (/\ op = "scrape_episodes" /\ Done
     /\ \/ response.transport = "fail"
        \/ response.shape \in {"empty_dict", "no_data"}
        \/ response.shape = "data" /\ ListingWellFormed) =>
        /\ raised = NoExc
        /\ episode_map # {}
        /\ IF ListingAvailable /\ Listing # <<>>
           THEN episode_map = {[key |-> [none |-> FALSE, n |-> NumberOf(Listing[i])], value |-> 1] :
                                  i \in 1..Len(Listing)}
           ELSE episode_map = {[key |-> [none |-> TRUE, n |-> 0], value |-> 1]}

\* C6: search("") yields no entries and raises nothing, for any adapter,
\* whatever the upstream would answer.
C6_EmptyQuery ==
    (op = "search" /\ Done /\ query = <<>>) => entries = <<>> /\ raised = NoExc

\* C7: search never raises, in either adapter: for a non-empty query, when the
\* request fails in transport, the body does not parse, or the body lacks a
\* top-level key or a per-entry field, the result is empty and nothing is
\* raised.
C7_SearchNeverRaises ==
    (/\ op = "search" /\ Done /\ query # <<>>
     /\ \/ response.transport = "fail"
        \/ response.shape \in {"unparsable", "empty_dict", "no_data"}
        \/ adapter = "hianime" /\ response.shape = "data" /\ "animes" \notin response.keys
        \/ /\ response.shape = "data"
           /\ ~limit.given
           /\ \E i \in 1..Len(response.items) :
                response.items[i].keys # (IF adapter = "hianime"
                                          THEN {"id", "name", "episodes", "sub"}
                                          ELSE {"session", "title", "episodes"})) =>
        entries = <<>> /\ raised = NoExc

ValidSearchResponse ==
    /\ response.transport = "ok"
    /\ response.shape = "data"
    /\ adapter = "hianime" => "animes" \in response.keys
    /\ \A i \in 1..Len(response.items) :
            response.items[i].keys = (IF adapter = "hianime"
                                      THEN {"id", "name", "episodes", "sub"}
                                      ELSE {"session", "title", "episodes"})

\* C8: for a non-empty query, a valid upstream response and a limit absent or
\* non-negative, search (either adapter) yields the upstream list cut to its
\* first `limit` entries in upstream order, each entry with the upstream id
\* and title, of kind Multi exactly when the upstream episode count exceeds 1.
C8_SearchResults ==
    (/\ op = "search" /\ Done /\ query # <<>>
     /\ ValidSearchResponse
     /\ ~limit.given \/ limit.n >= 0) =>
        LET up == response.items
            n == IF limit.given /\ limit.n < Len(up) THEN limit.n ELSE Len(up)
        IN  /\ raised = NoExc
            /\ Len(entries) = n
            /\ \A i \in 1..n :
                /\ entries[i].id = up[i].id
                /\ entries[i].title = up[i].name
                /\ entries[i].type = (IF up[i].count > 1 THEN "MULTI" ELSE "SINGLE")

\* a two-entry upstream list cut to one entry, whose episode count of 1 makes
\* it a Single
C8_Witness ==
    /\ op = "search" /\ Done /\ query # <<>>
    /\ ValidSearchResponse
    /\ limit.given /\ limit.n = 1
    /\ Len(response.items) = 2
    /\ response.items[1].count = 1
    /\ Len(entries) = 1
    /\ entries[1].type = "SINGLE"

SiteOrigin == IF adapter = "hianime" THEN "https://hianime.to" ELSE "https://animepahe.ru"
CaptionTracks == {i \in 1..Len(second.tracks) : second.tracks[i].kind = "captions"}

\* C9: every non-placeholder descriptor scrape returns, in either adapter, has
\* the entry's title (Single) or the title suffixed with the target episode's
\* label (Multi), the adapter's site origin as referrer, the caller's selector
\* as episode (Multi), no subtitles on a Single, and in the JSON-API adapter
\* the label -> file pairs of the caption tracks as subtitles of a Multi.
C9_DescriptorAssembly ==
    (op = "scrape" /\ ReturnedDescriptor /\ ~IsPlaceholder(descriptor)) =>
        /\ descriptor.type = "Single" => descriptor.title = <<metadata.title>>
        /\ (descriptor.type = "Multi" /\ WellFormed(target_episode)) =>
                descriptor.title =
                    <<metadata.title, " - ">> \o
                    (IF adapter = "hianime" THEN <<"Episode ">> \o Str(target_episode.number)
                     ELSE target_episode.label)
        /\ descriptor.referrer = SiteOrigin
        /\ descriptor.type = "Multi" => descriptor.episode = episode
        /\ descriptor.type = "Single" => descriptor.subtitles.t = "None"
        /\ (/\ adapter = "hianime" /\ descriptor.type = "Multi"
            /\ \A i, j \in CaptionTracks :
                    second.tracks[i].label = second.tracks[j].label => i = j) =>
                descriptor.subtitles =
                    [t |-> "dict",
                     pairs |-> {<<second.tracks[i].label, second.tracks[i].file>> :
                                   i \in CaptionTracks}]

\* C10: the JSON-API adapter's scrape issues exactly one listing request
\* first and then at most one sources request, the latter only once a target
\* is located and keyed by the target's episodeId; a call that exits at the
\* listing or at the search for the target issues no sources request; and
\* every call ends by returning a descriptor.
C10_RequestOrdering ==
    ScrapeOf("hianime") =>
        /\ Len(requests) \in {1, 2}
        /\ requests[1] = [endpoint |-> "episodes", key |-> <<metadata.id>>]
        /\ Len(requests) = 2 =>
                /\ "episodeId" \in target_episode.keys
                /\ requests[2] = [endpoint |-> "sources", key |-> target_episode.id]
        /\ (Done /\ FirstStep) => Len(requests) = 1
        /\ pc = "located" => Len(requests) = 1
        /\ Done => raised = NoExc /\ descriptor.type \in {"Single", "Multi"}

====
